---- MODULE Spec2Model ----
(***************************************************************************)
(* Authoritative server of the flying-car combat game: the Entity Store    *)
(* (players, lasers) of server/src/modules/game/gameState.ts, the socket   *)
(* handlers of server/src/modules/network/socketHandlers.ts and the game   *)
(* loop of the server entry point.                                         *)
(*                                                                         *)
(* Numbers: positions and velocities are fixed-point, FP parts per world   *)
(* unit (per unit/second); unit normals are scaled by NS; truncation is    *)
(* toward zero.  Times are milliseconds, as Date.now() gives them.         *)
(***************************************************************************)
EXTENDS Integers, Sequences, FiniteSets, TLC

\* ------------------------------------------------------------- bounds ----
PlayerIds == {"p1", "p2"}   \* socket ids of the connections
TimeStep == 1000            \* Date.now() is observed once per TimeStep ms, by the tick
MaxElapsed == 4000          \* no tick is modelled later than MaxElapsed ms after StartTime
MaxLasers == 2              \* fire intents are not modelled beyond this many lasers in flight
MaxScore == 4               \* kills are not modelled beyond this score
MaxIntents == 4             \* the connections send this many intents (disconnects included) in all
MaxSpawnIndex == 2          \* Math.random draws one of the first MaxSpawnIndex spawn points
MaxGap == 9                 \* head-on pairs start up to MaxGap world units apart
MaxSpeed == 20              \* and fly at up to MaxSpeed world units per second
MaxSpread == 3              \* players wait up to MaxSpread world units off a laser's path
MaxFrames == 5              \* the browser runs up to MaxFrames animation frames

\* ------------------------------------------------- numeric conventions ---
FP == 10
NS == 1000
StartTime == 10000          \* Date.now() when the server starts listening

Quot(a, b) == IF a >= 0 THEN a \div b ELSE -((-a) \div b)
Abs(a) == IF a >= 0 THEN a ELSE -a

RECURSIVE SqrtSearch(_, _, _)
SqrtSearch(n, lo, hi) ==
  IF lo >= hi THEN lo
  ELSE LET mid == (lo + hi + 1) \div 2
       IN IF mid * mid <= n THEN SqrtSearch(n, mid, hi) ELSE SqrtSearch(n, lo, mid - 1)
\* Math.sqrt on fixed-point magnitudes: the integer square root
Sqrt(n) == SqrtSearch(n, 0, 46340)

Vec(x, y, z) == [x |-> x, y |-> y, z |-> z]
ZeroVec == Vec(0, 0, 0)
\* what a payload may carry in the place of a vector: a string
NotAVector == [primitive |-> "string"]
IsVector(v) == DOMAIN v = {"x", "y", "z"}

\* Math.sin / Math.cos of an angle in degrees, on the quarter turns the inputs use
SinDeg(d) == CASE d % 360 = 0 -> 0 [] d % 360 = 90 -> 1 [] d % 360 = 180 -> 0 [] d % 360 = 270 -> -1
CosDeg(d) == CASE d % 360 = 0 -> 1 [] d % 360 = 90 -> 0 [] d % 360 = 180 -> -1 [] d % 360 = 270 -> 0

\* ---------------------------------------------------- program constants --
DRAG_COEFFICIENT_X10 == 1   \* DRAG_COEFFICIENT = 0.1
MAX_VELOCITY == 200
LASER_DAMAGE == 10
CITY_BOUNDS == [minX |-> -1000, maxX |-> 1000, minY |-> 0, maxY |-> 1000,
                minZ |-> -1000, maxZ |-> 1000]
FULL_HEALTH == 100
FIRE_COOLDOWN == 1000
LASER_SPEED == 500
LASER_TTL == 2000
RESPAWN_DELAY == 3000
TICK_RATE == 15
TICK_INTERVAL == 1000 \div TICK_RATE

\* the spawn points of getRandomSpawnPoint (world units)
spawnPoints == << Vec(0, 100, 0), Vec(200, 120, 200), Vec(-200, 150, -200),
                  Vec(300, 180, -100), Vec(-150, 200, 250) >>
ToFP(v) == Vec(v.x * FP, v.y * FP, v.z * FP)
\* getRandomSpawnPoint: a spawn point whose index Math.random may draw
getRandomSpawnPoint ==
  { ToFP(spawnPoints[i]) : i \in { j \in 1..Len(spawnPoints) : j <= MaxSpawnIndex } }

\* ------------------------------------------------------------- state -----
VARIABLES
  players,        \* gameState.players: id -> Player record, for the ids in the store
  keys,           \* Object.keys(players): the ids in insertion order
  lasers,         \* gameState.lasers
  now,            \* Date.now()
  lastUpdateTime, \* gameLoop's lastUpdateTime
  sockets,        \* the connections that are open (socket ids are never reused)
  events,         \* the messages emitted by the last handler or tick, in order
  hitLog,         \* the playerHit calls made by the last handler or tick, in order
  steps,          \* what the last tick did to each player, phase by phase, in order
  handled,        \* how many intents and disconnects have been handled
  timer,          \* how many setTimeout(gameLoop) callbacks are pending
  loop,           \* client, game.ts: gameRunning, gameLoop and the animation frames
  car,            \* client: the player's mesh position and velocity as the last
                  \* checkCollisions call left them, and what that call was given
  ret             \* the last callback: its event, its socket and what it returned

vars == <<players, keys, lasers, now, lastUpdateTime, sockets, events, hitLog, steps,
          handled, timer, loop, car, ret>>

\* the variables of the server
server == <<players, keys, lasers, now, lastUpdateTime, sockets, events, hitLog, steps,
            handled, timer, ret>>

Has(ps, id) == id \in DOMAIN ps

\* ------------------------------------------------------------ events -----
\* One shape for every message: type, recipient ("all", "others" or a socket id),
\* the player it is about, the player it comes from, and a value.
NoId == "-"
Event(type, to, playerId, by, val, id) ==
  [type |-> type, to |-> to, playerId |-> playerId, by |-> by, val |-> val, id |-> id]
NoLaserId == <<NoId, 0>>
\* the record of a callback: its event, its socket, the id its payload names, its result
Ret(op, by, arg, value) == [op |-> op, by |-> by, arg |-> arg, value |-> value]

\* ------------------------------------------------------ Entity Store -----
\* addPlayer: a fresh record under playerId, replacing any record already there
addPlayer(ps, playerId, initialData, spawnPoint, t) ==
  LET rec == [ id |-> playerId,
               position |-> IF "position" \in DOMAIN initialData
                            THEN initialData.position ELSE spawnPoint,
               rotation |-> IF "rotation" \in DOMAIN initialData
                            THEN initialData.rotation ELSE ZeroVec,
               velocity |-> IF "velocity" \in DOMAIN initialData
                            THEN initialData.velocity ELSE ZeroVec,
               health |-> FULL_HEALTH,
               score |-> 0,
               isAlive |-> TRUE,
               respawnTime |-> 0,
               lastShotTime |-> 0 ]
  IN [id \in DOMAIN ps \cup {playerId} |-> IF id = playerId THEN rec ELSE ps[id]]

\* the insertion order of the keys of players after players[playerId] = ...
addKey(ks, playerId) ==
  IF \E i \in 1..Len(ks) : ks[i] = playerId THEN ks ELSE Append(ks, playerId)

\* removePlayer: delete players[playerId]
removePlayer(ps, playerId) == [id \in DOMAIN ps \ {playerId} |-> ps[id]]
removeKey(ks, playerId) == SelectSeq(ks, LAMBDA k : k # playerId)

\* updatePlayer: overwrite the fields the payload carries
updatePlayer(ps, playerId, updateData) ==
  IF ~Has(ps, playerId) THEN ps
  ELSE [ps EXCEPT ![playerId] =
         [@ EXCEPT !.position = IF "position" \in DOMAIN updateData
                                THEN updateData.position ELSE @,
                   !.rotation = IF "rotation" \in DOMAIN updateData
                                THEN updateData.rotation ELSE @,
                   !.velocity = IF "velocity" \in DOMAIN updateData
                                THEN updateData.velocity ELSE @]]

\* the guard of firePlayerLaser: the player exists, is alive and is off cooldown
canFire(ps, playerId, t) ==
  /\ Has(ps, playerId)
  /\ ps[playerId].isAlive
  /\ ~(t - ps[playerId].lastShotTime < FIRE_COOLDOWN)

\* a laser that lives twice as long
newLaserLongLived(player, t) ==
  [ id |-> <<player.id, t>>,
    playerId |-> player.id,
    position |-> player.position,
    rotation |-> player.rotation,
    velocity |-> Vec(-SinDeg(player.rotation.y) * LASER_SPEED * FP,
                     SinDeg(player.rotation.x) * LASER_SPEED * FP,
                     -CosDeg(player.rotation.y) * LASER_SPEED * FP),
    createdAt |-> t,
    timeToLive |-> 2 * LASER_TTL ]

\* the laser firePlayerLaser creates
newLaser(player, t) ==
  [ id |-> <<player.id, t>>,
    playerId |-> player.id,
    position |-> player.position,
    rotation |-> player.rotation,
    velocity |-> Vec(-SinDeg(player.rotation.y) * LASER_SPEED * FP,
                     SinDeg(player.rotation.x) * LASER_SPEED * FP,
                     -CosDeg(player.rotation.y) * LASER_SPEED * FP),
    createdAt |-> t,
    timeToLive |-> LASER_TTL ]

\* firePlayerLaser: [players, lasers, laser]; laser is <<>> when the intent is refused
firePlayerLaser(ps, ls, playerId, t) ==
  IF ~canFire(ps, playerId, t)
  THEN [players |-> ps, lasers |-> ls, laser |-> <<>>]
  ELSE LET laser == newLaser(ps[playerId], t)
       IN [ players |-> [ps EXCEPT ![playerId].lastShotTime = t],
            lasers |-> Append(ls, laser),
            laser |-> <<laser>> ]

\* playerHit without the clamp of the health to 0
playerHitNoClamp(ps, playerId, damage, sourceId, t) ==
  IF ~Has(ps, playerId) \/ ~ps[playerId].isAlive
  THEN [players |-> ps, success |-> FALSE, killed |-> FALSE]
  ELSE LET h == ps[playerId].health - damage
       IN IF h <= 0
          THEN LET dead == [ps EXCEPT ![playerId] =
                              [@ EXCEPT !.health = h, !.isAlive = FALSE,
                                        !.respawnTime = t + RESPAWN_DELAY]]
                   scored == IF sourceId # "collision" /\ Has(dead, sourceId)
                             THEN [dead EXCEPT ![sourceId].score = @ + 1]
                             ELSE dead
               IN [players |-> scored, success |-> TRUE, killed |-> TRUE]
          ELSE [players |-> [ps EXCEPT ![playerId].health = h],
                success |-> TRUE, killed |-> FALSE]

\* playerHit without the test that the player is alive
playerHitOnDead(ps, playerId, damage, sourceId, t) ==
  IF ~Has(ps, playerId)
  THEN [players |-> ps, success |-> FALSE, killed |-> FALSE]
  ELSE LET h == ps[playerId].health - damage
       IN IF h <= 0
          THEN LET dead == [ps EXCEPT ![playerId] =
                              [@ EXCEPT !.health = 0, !.isAlive = FALSE,
                                        !.respawnTime = t + RESPAWN_DELAY]]
                   scored == IF sourceId # "collision" /\ Has(dead, sourceId)
                             THEN [dead EXCEPT ![sourceId].score = @ + 1]
                             ELSE dead
               IN [players |-> scored, success |-> TRUE, killed |-> TRUE]
          ELSE [players |-> [ps EXCEPT ![playerId].health = h],
                success |-> TRUE, killed |-> FALSE]

\* playerHit: [players, success, killed]
playerHit(ps, playerId, damage, sourceId, t) ==
  IF ~Has(ps, playerId) \/ ~ps[playerId].isAlive
  THEN [players |-> ps, success |-> FALSE, killed |-> FALSE]
  ELSE LET h == ps[playerId].health - damage
       IN IF h <= 0
          THEN LET dead == [ps EXCEPT ![playerId] =
                              [@ EXCEPT !.health = 0, !.isAlive = FALSE,
                                        !.respawnTime = t + RESPAWN_DELAY]]
                   scored == IF sourceId # "collision" /\ Has(dead, sourceId)
                             THEN [dead EXCEPT ![sourceId].score = @ + 1]
                             ELSE dead
               IN [players |-> scored, success |-> TRUE, killed |-> TRUE]
          ELSE [players |-> [ps EXCEPT ![playerId].health = h],
                success |-> TRUE, killed |-> FALSE]

\* One playerHit call on the world w = [players, log], recorded in the log
\* with the store before and after it.
hit(w, playerId, damage, sourceId, via, t) ==
  LET r == playerHit(w.players, playerId, damage, sourceId, t)
  IN [w EXCEPT !.players = r.players,
               !.log = Append(@, [ target |-> playerId, source |-> sourceId,
                                   damage |-> damage, via |-> via,
                                   success |-> r.success, killed |-> r.killed,
                                   before |-> w.players, after |-> r.players ])]

\* One phase of the tick on the player id, recorded in w1.steps with the player's
\* record before it (in w0) and after it (in w1); raw is the position the phase
\* computed before any clamp.
logged(w0, w1, op, id, raw) ==
  [w1 EXCEPT !.steps = Append(@, [ op |-> op, id |-> id, before |-> w0.players[id],
                                   after |-> w1.players[id], raw |-> raw ])]

\* -------------------------------------------------------------- tick -----
\* generateCityLayout: two neighbouring buildings (grid cells (1,1) and (2,1)) with
\* sizes and offsets in the generator's ranges; world units
cityLayout ==
  << [position |-> ToFP(Vec(124, 50, 100)), size |-> ToFP(Vec(48, 100, 50))],
     [position |-> ToFP(Vec(176, 50, 120)), size |-> ToFP(Vec(48, 100, 20))] >>

\* checkBoxCollision
checkBoxCollision(pos1, size1, pos2, size2) ==
  /\ 2 * pos1.x + size1.x > 2 * pos2.x - size2.x
  /\ 2 * pos1.x - size1.x < 2 * pos2.x + size2.x
  /\ 2 * pos1.y + size1.y > 2 * pos2.y - size2.y
  /\ 2 * pos1.y - size1.y < 2 * pos2.y + size2.y
  /\ 2 * pos1.z + size1.z > 2 * pos2.z - size2.z
  /\ 2 * pos1.z - size1.z < 2 * pos2.z + size2.z

\* dx*dx + dy*dy + dz*dz < r*r, evaluated without leaving the integer range
within(dx, dy, dz, r) ==
  /\ Abs(dx) < r /\ Abs(dy) < r /\ Abs(dz) < r
  /\ dx * dx + dy * dy + dz * dz < r * r

\* checkSphereCollision
checkSphereCollision(pos1, radius1, pos2, radius2) ==
  within(pos1.x - pos2.x, pos1.y - pos2.y, pos1.z - pos2.z, radius1 + radius2)

\* the unit vector along (dx, dy, dz), scaled by NS, given its length
normal(dx, dy, dz, length) ==
  Vec(Quot(dx * NS, length), Quot(dy * NS, length), Quot(dz * NS, length))

\* a respawnPlayer that resets nothing
respawnPlayerNothing(ps, playerId, spawnPoint) == ps

\* respawnPlayer
respawnPlayer(ps, playerId, spawnPoint) ==
  IF ~Has(ps, playerId) THEN ps
  ELSE [ps EXCEPT ![playerId] =
         [@ EXCEPT !.health = FULL_HEALTH, !.isAlive = TRUE,
                   !.velocity = ZeroVec, !.position = spawnPoint]]

\* a world-bounds clamp that puts the position back and keeps the velocity
clampAxisKeepsVelocity(p, v, lo, hi) ==
  IF p < lo * FP THEN <<lo * FP, v>>
  ELSE IF p > hi * FP THEN <<hi * FP, v>>
  ELSE <<p, v>>

\* one axis of the world-bounds clamp: <<position, velocity>>
clampAxis(p, v, lo, hi) ==
  IF p < lo * FP THEN <<lo * FP, 0>>
  ELSE IF p > hi * FP THEN <<hi * FP, 0>>
  ELSE <<p, v>>

\* updatePlayerPhysics up to the world-bounds test: drag, speed limit, movement;
\* deltaTime given in milliseconds
integrate(player, dtms) ==
  LET drag(c) == Quot(c * (10000 - DRAG_COEFFICIENT_X10 * dtms), 10000)
      v1 == Vec(drag(player.velocity.x), drag(player.velocity.y), drag(player.velocity.z))
      speed == Sqrt(v1.x * v1.x + v1.y * v1.y + v1.z * v1.z)
      lim(c) == Quot(c * MAX_VELOCITY * FP, speed)
      v2 == IF speed > MAX_VELOCITY * FP THEN Vec(lim(v1.x), lim(v1.y), lim(v1.z)) ELSE v1
      step(c) == Quot(c * dtms, 1000)
      p1 == Vec(player.position.x + step(v2.x), player.position.y + step(v2.y),
                player.position.z + step(v2.z))
  IN [player EXCEPT !.position = p1, !.velocity = v2]

\* the world-bounds test of updatePlayerPhysics
clampToBounds(player) ==
  LET cx == clampAxis(player.position.x, player.velocity.x,
                      CITY_BOUNDS.minX, CITY_BOUNDS.maxX)
      cy == clampAxis(player.position.y, player.velocity.y,
                      CITY_BOUNDS.minY, CITY_BOUNDS.maxY)
      cz == clampAxis(player.position.z, player.velocity.z,
                      CITY_BOUNDS.minZ, CITY_BOUNDS.maxZ)
  IN [player EXCEPT !.position = Vec(cx[1], cy[1], cz[1]),
                    !.velocity = Vec(cx[2], cy[2], cz[2])]

\* updatePlayerPhysics
updatePlayerPhysics(player, dtms) == clampToBounds(integrate(player, dtms))

\* the body of checkPlayerCityCollisions for one building
cityCollision(w, id, building, t) ==
  LET player == w.players[id]
      playerSize == ToFP(Vec(8, 3, 16))
      dx == player.position.x - building.position.x
      dy == player.position.y - building.position.y
      dz == player.position.z - building.position.z
      length == Sqrt(dx * dx + dy * dy + dz * dz)
      n == normal(dx, dy, dz, length)
      relativeVelocity == -Quot(player.velocity.x * n.x + player.velocity.y * n.y
                                + player.velocity.z * n.z, NS)
      damage == relativeVelocity \div (2 * FP)
      w1 == IF damage > 0 THEN hit(w, id, damage, "collision", "city", t) ELSE w
      bounce(c) == Quot(c * relativeVelocity, 2 * NS)
      push(c) == Quot(c * 2 * FP, NS)
      w2 == [w1 EXCEPT !.players[id] =
              [@ EXCEPT !.velocity = Vec(@.x + bounce(n.x), @.y + bounce(n.y),
                                         @.z + bounce(n.z)),
                        !.position = Vec(@.x + push(n.x), @.y + push(n.y),
                                         @.z + push(n.z))]]
  IN IF 2 * player.position.y - playerSize.y
          > 2 * building.position.y + building.size.y + 2 * FP
     THEN w
     ELSE IF ~checkBoxCollision(player.position, playerSize,
                                building.position, building.size)
     THEN w
     ELSE IF length = 0 THEN w
     ELSE IF ~(relativeVelocity > 5 * FP) THEN w
     ELSE logged(w1, w2, "city", id, w2.players[id].position)

RECURSIVE checkPlayerCityCollisions(_, _, _, _)
\* checkPlayerCityCollisions: the buildings from index i on
checkPlayerCityCollisions(w, id, i, t) ==
  IF i > Len(cityLayout) THEN w
  ELSE checkPlayerCityCollisions(cityCollision(w, id, cityLayout[i], t), id, i + 1, t)

\* the body of checkPlayerCollisions for one other player
playerCollision(w, id, otherId, t) ==
  LET player == w.players[id]
      otherPlayer == w.players[otherId]
      playerRadius == 5 * FP
      dx == player.position.x - otherPlayer.position.x
      dy == player.position.y - otherPlayer.position.y
      dz == player.position.z - otherPlayer.position.z
      length == Sqrt(dx * dx + dy * dy + dz * dz)
      n == normal(dx, dy, dz, length)
      impactVelocity == Quot((player.velocity.x - otherPlayer.velocity.x) * n.x
                             + (player.velocity.y - otherPlayer.velocity.y) * n.y
                             + (player.velocity.z - otherPlayer.velocity.z) * n.z, NS)
      damage == (Abs(impactVelocity) * 3) \div (10 * FP)
      w1 == IF Abs(impactVelocity) > 10 * FP
            THEN hit(hit(w, id, damage, "collision", "player", t),
                     otherId, damage, "collision", "player", t)
            ELSE w
      \* impulse * 0.5 = -impactVelocity * (1 + restitution) * 0.5
      kick(c) == Quot(c * (-impactVelocity) * 9, 10 * NS)
      push(c) == Quot(c * FP, 2 * NS)
      w2 == [w1 EXCEPT
              !.players[id] =
                [@ EXCEPT !.velocity = Vec(@.x + kick(n.x), @.y + kick(n.y), @.z + kick(n.z)),
                          !.position = Vec(@.x + push(n.x), @.y + push(n.y), @.z + push(n.z))],
              !.players[otherId] =
                [@ EXCEPT !.velocity = Vec(@.x - kick(n.x), @.y - kick(n.y), @.z - kick(n.z)),
                          !.position = Vec(@.x - push(n.x), @.y - push(n.y), @.z - push(n.z))]]
  IN IF id = otherId \/ ~otherPlayer.isAlive \/ ~player.isAlive THEN w
     ELSE IF ~checkSphereCollision(player.position, playerRadius,
                                   otherPlayer.position, playerRadius)
     THEN w
     ELSE IF length = 0 THEN w
     ELSE IF impactVelocity > 0 THEN w
     ELSE logged(w1, logged(w1, w2, "player", id, w2.players[id].position),
                 "player", otherId, w2.players[otherId].position)

RECURSIVE checkPlayerCollisions(_, _, _, _, _)
\* checkPlayerCollisions: Object.values(players) from index i on
checkPlayerCollisions(w, id, ks, i, t) ==
  IF i > Len(ks) THEN w
  ELSE checkPlayerCollisions(playerCollision(w, id, ks[i], t), id, ks, i + 1, t)

\* the body of update's loop for one player; spawn gives the spawn point drawn
\* for each player whose respawn is due
updateOnePlayer(w, id, ks, dtms, spawn, t) ==
  LET due == ~w.players[id].isAlive /\ w.players[id].respawnTime <= t
      w1 == IF due
            THEN logged(w, [w EXCEPT !.players = respawnPlayer(@, id, spawn[id])],
                        "respawn", id, spawn[id])
            ELSE w
      w2 == logged(w1, [w1 EXCEPT !.players[id] = updatePlayerPhysics(@, dtms)],
                   "physics", id, integrate(w1.players[id], dtms).position)
      w3 == checkPlayerCityCollisions(w2, id, 1, t)
  IN IF ~w1.players[id].isAlive THEN w1
     ELSE checkPlayerCollisions(w3, id, ks, 1, t)

RECURSIVE updatePlayers(_, _, _, _, _, _)
updatePlayers(w, ks, i, dtms, spawn, t) ==
  IF i > Len(ks) THEN w
  ELSE updatePlayers(updateOnePlayer(w, ks[i], ks, dtms, spawn, t), ks, i + 1, dtms, spawn, t)

\* the laser's position after deltaTime (milliseconds)
advanceLaser(laser, dtms) ==
  [laser EXCEPT !.position = Vec(@.x + Quot(laser.velocity.x * dtms, 1000),
                                 @.y + Quot(laser.velocity.y * dtms, 1000),
                                 @.z + Quot(laser.velocity.z * dtms, 1000))]

\* the laser-player test without the exemption of the laser's owner
laserHitsOwnerToo(laser, player) ==
  /\ player.isAlive
  /\ within(player.position.x - laser.position.x, player.position.y - laser.position.y,
            player.position.z - laser.position.z, 5 * FP)

\* the guard of the laser-player test: the player is neither the owner nor dead,
\* and is closer to the laser than the hit radius
laserHits(laser, player) ==
  /\ ~(laser.playerId = player.id \/ ~player.isAlive)
  /\ within(player.position.x - laser.position.x, player.position.y - laser.position.y,
            player.position.z - laser.position.z, 5 * FP)

RECURSIVE laserVsPlayers(_, _, _, _, _)
\* the players loop of updateLasers for one laser, from index i on:
\* [w, hit] where hit says the laser was pushed on lasersToRemove
laserVsPlayers(wh, laser, ks, i, t) ==
  IF i > Len(ks) THEN wh
  ELSE LET player == wh.w.players[ks[i]]
           next == IF laserHits(laser, player)
                   THEN [w |-> hit(wh.w, player.id, LASER_DAMAGE, laser.playerId, "laser", t),
                         hit |-> TRUE]
                   ELSE wh
       IN laserVsPlayers(next, laser, ks, i + 1, t)

\* the buildings loop of updateLasers for one laser
laserHitsBuilding(laser) ==
  \E i \in 1..Len(cityLayout) :
    LET b == cityLayout[i]
    IN /\ ~(2 * laser.position.y > 2 * b.position.y + b.size.y + 2 * 10 * FP)
       /\ 2 * laser.position.x >= 2 * b.position.x - b.size.x
       /\ 2 * laser.position.x <= 2 * b.position.x + b.size.x
       /\ 2 * laser.position.y >= 2 * b.position.y - b.size.y
       /\ 2 * laser.position.y <= 2 * b.position.y + b.size.y
       /\ 2 * laser.position.z >= 2 * b.position.z - b.size.z
       /\ 2 * laser.position.z <= 2 * b.position.z + b.size.z

RECURSIVE updateLasersFrom(_, _, _, _, _)
\* the forEach of updateLasers from index i on; u = [w, lasers, remove]
updateLasersFrom(u, ks, i, dtms, t) ==
  IF i > Len(u.lasers) THEN u
  ELSE LET laser == u.lasers[i]
       IN IF t - laser.createdAt > laser.timeToLive
          THEN updateLasersFrom(
                 [u EXCEPT !.remove = @ \cup {laser.id},
                           !.w.steps = Append(@, [ op |-> "expired", id |-> laser.playerId,
                                                   before |-> laser, after |-> laser,
                                                   raw |-> laser.position ])],
                 ks, i + 1, dtms, t)
          ELSE LET moved == advanceLaser(laser, dtms)
                   wh == laserVsPlayers([w |-> u.w, hit |-> FALSE], moved, ks, 1, t)
                   gone == wh.hit \/ laserHitsBuilding(moved)
               IN updateLasersFrom(
                    [ w |-> wh.w,
                      lasers |-> [u.lasers EXCEPT ![i] = moved],
                      remove |-> IF gone THEN u.remove \cup {laser.id} ELSE u.remove ],
                    ks, i + 1, dtms, t)

\* updateLasers: [w, lasers]
updateLasers(w, ls, ks, dtms, t) ==
  LET u == updateLasersFrom([w |-> w, lasers |-> ls, remove |-> {}], ks, 1, dtms, t)
  IN [w |-> u.w, lasers |-> SelectSeq(u.lasers, LAMBDA l : l.id \notin u.remove)]

\* update: [w, lasers]
update(ps, ks, ls, dtms, spawn, t) ==
  LET w == updatePlayers([players |-> ps, log |-> <<>>, steps |-> <<>>], ks, 1, dtms, spawn, t)
  IN updateLasers(w, ls, ks, dtms, t)

\* the players whose respawn timer has run out at time t
respawnDue(ps, t) == {id \in DOMAIN ps : ~ps[id].isAlive /\ ps[id].respawnTime <= t}

\* update throws a TypeError: the module is strict code, and for a live player
\* whose position or velocity is a primitive value updatePlayerPhysics (or, before
\* it, the collision response of an earlier player) assigns to a component of it
updateThrows(ps) ==
  \E id \in DOMAIN ps :
    ps[id].isAlive /\ ~(IsVector(ps[id].position) /\ IsVector(ps[id].velocity))

\* a game loop that sets its next timeout twice
gameLoopTwice(t, spawn) ==
  /\ timer > 0
  /\ t - lastUpdateTime >= TICK_INTERVAL
  /\ t <= StartTime + MaxElapsed
  /\ now' = t
  /\ lastUpdateTime' = t
  /\ IF updateThrows(players)
     THEN /\ players' = <<>>
          /\ keys' = <<>>
          /\ lasers' = <<>>
          /\ sockets' = {}
          /\ hitLog' = <<>>
          /\ steps' = <<>>
          /\ events' = <<>>
          /\ timer' = timer - 1
          /\ ret' = Ret("tick", NoId, NoId, "threw")
     ELSE /\ LET r == update(players, keys, lasers, t - lastUpdateTime, spawn, t)
             IN /\ players' = r.w.players
                /\ hitLog' = r.w.log
                /\ steps' = r.w.steps
                /\ lasers' = r.lasers
          /\ events' = << Event("game:state", "all", NoId, NoId, 0, NoLaserId) >>
          /\ timer' = timer - 1 + 2
          /\ ret' = Ret("tick", NoId, NoId, "none")
          /\ UNCHANGED <<keys, sockets>>
  /\ UNCHANGED <<handled, loop, car>>

\* gameLoop, run by the timer when Date.now() has reached t; the timer was set
\* TICK_INTERVAL after the previous run returned.  When update throws, nothing
\* catches the error: the process ends before setTimeout is reached, and the
\* store and the connections end with it.
gameLoop(t, spawn) ==
  /\ timer > 0
  /\ t - lastUpdateTime >= TICK_INTERVAL
  /\ t <= StartTime + MaxElapsed
  /\ now' = t
  /\ lastUpdateTime' = t
  /\ IF updateThrows(players)
     THEN /\ players' = <<>>
          /\ keys' = <<>>
          /\ lasers' = <<>>
          /\ sockets' = {}
          /\ hitLog' = <<>>
          /\ steps' = <<>>
          /\ events' = <<>>
          /\ timer' = timer - 1
          /\ ret' = Ret("tick", NoId, NoId, "threw")
     ELSE /\ LET r == update(players, keys, lasers, t - lastUpdateTime, spawn, t)
             IN /\ players' = r.w.players
                /\ hitLog' = r.w.log
                /\ steps' = r.w.steps
                /\ lasers' = r.lasers
          /\ events' = << Event("game:state", "all", NoId, NoId, 0, NoLaserId) >>
          /\ timer' = timer - 1 + 1
          /\ ret' = Ret("tick", NoId, NoId, "none")
          /\ UNCHANGED <<keys, sockets>>
  /\ UNCHANGED <<handled, loop, car>>

\* ---------------------------------------------------- socket handlers ----
\* socket.on('player:join')
OnPlayerJoin(s, initialData, spawnPoint) ==
  /\ s \in sockets
  /\ handled < MaxIntents
  /\ handled' = handled + 1
  /\ players' = addPlayer(players, s, initialData, spawnPoint, now)
  /\ keys' = addKey(keys, s)
  /\ events' = << Event("game:state", s, NoId, NoId, 0, NoLaserId),
                  Event("player:joined", "others", s, s, 0, NoLaserId) >>
  /\ hitLog' = <<>>
  /\ steps' = <<>>
  /\ ret' = Ret("player:join", s, NoId, "none")
  /\ UNCHANGED <<lasers, now, lastUpdateTime, sockets, timer, loop, car>>

\* a disconnect handler that also removes the lasers of the player who left
OnDisconnectDropsLasers(s) ==
  /\ s \in sockets
  /\ handled < MaxIntents
  /\ handled' = handled + 1
  /\ sockets' = sockets \ {s}
  /\ players' = removePlayer(players, s)
  /\ keys' = removeKey(keys, s)
  /\ lasers' = SelectSeq(lasers, LAMBDA l : l.playerId # s)
  /\ events' = << Event("player:left", "others", s, s, 0, NoLaserId) >>
  /\ hitLog' = <<>>
  /\ steps' = <<>>
  /\ ret' = Ret("disconnect", s, NoId, "none")
  /\ UNCHANGED <<now, lastUpdateTime, timer, loop, car>>

\* socket.on('disconnect')
OnDisconnect(s) ==
  /\ s \in sockets
  /\ handled < MaxIntents
  /\ handled' = handled + 1
  /\ sockets' = sockets \ {s}
  /\ players' = removePlayer(players, s)
  /\ keys' = removeKey(keys, s)
  /\ events' = << Event("player:left", "others", s, s, 0, NoLaserId) >>
  /\ hitLog' = <<>>
  /\ steps' = <<>>
  /\ ret' = Ret("disconnect", s, NoId, "none")
  /\ UNCHANGED <<lasers, now, lastUpdateTime, timer, loop, car>>

\* socket.on('player:update')
OnPlayerUpdate(s, updateData) ==
  /\ s \in sockets
  /\ handled < MaxIntents
  /\ handled' = handled + 1
  /\ players' = updatePlayer(players, s, updateData)
  /\ events' = <<>>
  /\ hitLog' = <<>>
  /\ steps' = <<>>
  /\ ret' = Ret("player:update", s, NoId, "none")
  /\ UNCHANGED <<keys, lasers, now, lastUpdateTime, sockets, timer, loop, car>>

\* the laser:fire handler with socket.broadcast.emit in the place of io.emit
OnLaserFireToOthers(s) ==
  /\ s \in sockets
  /\ handled < MaxIntents
  /\ handled' = handled + 1
  /\ Len(lasers) < MaxLasers
  /\ LET r == firePlayerLaser(players, lasers, s, now)
     IN /\ players' = r.players
        /\ lasers' = r.lasers
        /\ events' = IF r.laser # <<>>
                      THEN << Event("laser:shot", "others", s, s, 0, r.laser[1].id) >>
                      ELSE <<>>
  /\ hitLog' = <<>>
  /\ steps' = <<>>
  /\ ret' = Ret("laser:fire", s, NoId, "none")
  /\ UNCHANGED <<keys, now, lastUpdateTime, sockets, timer, loop, car>>

\* socket.on('laser:fire'): the payload is not read by firePlayerLaser
OnLaserFire(s) ==
  /\ s \in sockets
  /\ handled < MaxIntents
  /\ handled' = handled + 1
  /\ Len(lasers) < MaxLasers
  /\ LET r == firePlayerLaser(players, lasers, s, now)
     IN /\ players' = r.players
        /\ lasers' = r.lasers
        /\ events' = IF r.laser # <<>>
                      THEN << Event("laser:shot", "all", s, s, 0, r.laser[1].id) >>
                      ELSE <<>>
  /\ hitLog' = <<>>
  /\ steps' = <<>>
  /\ ret' = Ret("laser:fire", s, NoId, "none")
  /\ UNCHANGED <<keys, now, lastUpdateTime, sockets, timer, loop, car>>

\* a laser:hit handler that does not test whether the target is alive
OnLaserHitOnDead(s, targetId) ==
  /\ s \in sockets
  /\ handled < MaxIntents
  /\ handled' = handled + 1
  /\ \A id \in DOMAIN players : players[id].score + 2 <= MaxScore
  /\ IF Has(players, targetId)
     THEN LET w == hit([players |-> players, log |-> <<>>], targetId, LASER_DAMAGE, s,
                       "report", now)
              killed == w.log[1].killed
              credited == IF killed /\ Has(w.players, s)
                          THEN [w.players EXCEPT ![s].score = @ + 1]
                          ELSE w.players
          IN /\ players' = credited
             /\ hitLog' = w.log
             /\ steps' = <<>>
             /\ events' =
                  << Event("player:hit", targetId, targetId, s,
                           w.players[targetId].health, NoLaserId),
                     Event("laser:impact", "all", targetId, NoId, 0, NoLaserId) >>
                  \o (IF killed
                      THEN << Event("player:died", "all", targetId, s, 0, NoLaserId) >>
                      ELSE <<>>)
                  \o (IF killed /\ Has(w.players, s)
                      THEN << Event("score:update", "all", s, s, credited[s].score,
                                    NoLaserId) >>
                      ELSE <<>>)
             /\ ret' = Ret("laser:hit", s, targetId, "true")
     ELSE /\ players' = players
          /\ hitLog' = <<>>
          /\ steps' = <<>>
          /\ events' = <<>>
          /\ ret' = Ret("laser:hit", s, targetId, "false")
  /\ UNCHANGED <<keys, lasers, now, lastUpdateTime, sockets, timer, loop, car>>

\* a laser:hit handler that sends player:hit to every client
OnLaserHitToAll(s, targetId) ==
  /\ s \in sockets
  /\ handled < MaxIntents
  /\ handled' = handled + 1
  /\ \A id \in DOMAIN players : players[id].score + 2 <= MaxScore
  /\ IF Has(players, targetId) /\ players[targetId].isAlive
     THEN LET w == hit([players |-> players, log |-> <<>>], targetId, LASER_DAMAGE, s,
                       "report", now)
              killed == w.log[1].killed
              credited == IF killed /\ Has(w.players, s)
                          THEN [w.players EXCEPT ![s].score = @ + 1]
                          ELSE w.players
          IN /\ players' = credited
             /\ hitLog' = w.log
             /\ steps' = <<>>
             /\ events' =
                  << Event("player:hit", "all", targetId, s,
                           w.players[targetId].health, NoLaserId),
                     Event("laser:impact", "all", targetId, NoId, 0, NoLaserId) >>
                  \o (IF killed
                      THEN << Event("player:died", "all", targetId, s, 0, NoLaserId) >>
                      ELSE <<>>)
                  \o (IF killed /\ Has(w.players, s)
                      THEN << Event("score:update", "all", s, s, credited[s].score,
                                    NoLaserId) >>
                      ELSE <<>>)
             /\ ret' = Ret("laser:hit", s, targetId, "true")
     ELSE /\ players' = players
          /\ hitLog' = <<>>
          /\ steps' = <<>>
          /\ events' = <<>>
          /\ ret' = Ret("laser:hit", s, targetId, "false")
  /\ UNCHANGED <<keys, lasers, now, lastUpdateTime, sockets, timer, loop, car>>

\* socket.on('laser:hit')
OnLaserHit(s, targetId) ==
  /\ s \in sockets
  /\ handled < MaxIntents
  /\ handled' = handled + 1
  /\ \A id \in DOMAIN players : players[id].score + 2 <= MaxScore
  /\ IF Has(players, targetId) /\ players[targetId].isAlive
     THEN LET w == hit([players |-> players, log |-> <<>>], targetId, LASER_DAMAGE, s,
                       "report", now)
              killed == w.log[1].killed
              credited == IF killed /\ Has(w.players, s)
                          THEN [w.players EXCEPT ![s].score = @ + 1]
                          ELSE w.players
          IN /\ players' = credited
             /\ hitLog' = w.log
             /\ steps' = <<>>
             /\ events' =
                  << Event("player:hit", targetId, targetId, s,
                           w.players[targetId].health, NoLaserId),
                     Event("laser:impact", "all", targetId, NoId, 0, NoLaserId) >>
                  \o (IF killed
                      THEN << Event("player:died", "all", targetId, s, 0, NoLaserId) >>
                      ELSE <<>>)
                  \o (IF killed /\ Has(w.players, s)
                      THEN << Event("score:update", "all", s, s, credited[s].score,
                                    NoLaserId) >>
                      ELSE <<>>)
             /\ ret' = Ret("laser:hit", s, targetId, "true")
     ELSE /\ players' = players
          /\ hitLog' = <<>>
          /\ steps' = <<>>
          /\ events' = <<>>
          /\ ret' = Ret("laser:hit", s, targetId, "false")
  /\ UNCHANGED <<keys, lasers, now, lastUpdateTime, sockets, timer, loop, car>>

\* socket.on('chat:message')
OnChatMessage(s) ==
  /\ s \in sockets
  /\ handled < MaxIntents
  /\ handled' = handled + 1
  /\ events' = IF Has(players, s)
                THEN << Event("chat:message", "all", s, s, 0, NoLaserId) >>
                ELSE <<>>
  /\ hitLog' = <<>>
  /\ steps' = <<>>
  /\ ret' = Ret("chat:message", s, NoId, "none")
  /\ UNCHANGED <<players, keys, lasers, now, lastUpdateTime, sockets, timer, loop, car>>

\* socket.on('ping')
OnPing(s) ==
  /\ s \in sockets
  /\ handled < MaxIntents
  /\ handled' = handled + 1
  /\ events' = << Event("pong", s, NoId, NoId, 0, NoLaserId) >>
  /\ hitLog' = <<>>
  /\ steps' = <<>>
  /\ ret' = Ret("ping", s, NoId, "none")
  /\ UNCHANGED <<players, keys, lasers, now, lastUpdateTime, sockets, timer, loop, car>>

\* -------------------------------------------------------- payloads -------
\* What a client sends with player:join and player:update: position, rotation
\* and velocity (world units, degrees).
Payload(p, r, v) == [position |-> ToFP(p), rotation |-> r, velocity |-> ToFP(v)]
\* above the roofs, at rest, facing +x
Shooter == Payload(Vec(0, 500, 0), Vec(0, 270, 0), ZeroVec)
\* at rest where a laser shot by Shooter is one second later
InPath == Payload(Vec(500, 500, 0), ZeroVec, ZeroVec)
\* next to InPath, flying into it at full speed
Ram == Payload(Vec(504, 500, 0), ZeroVec, Vec(-200, 0, 0))
\* at roof level, flying at full speed head-on into the first building
Crash == Payload(Vec(330, 50, 100), ZeroVec, Vec(-200, 0, 0))
\* at roof level, flying at full speed into the gap between the two buildings
Dive == Payload(Vec(150, 50, 311), ZeroVec, Vec(0, 0, -200))
\* beyond the east wall of the world, flying further out
Outside == Payload(Vec(1100, 500, 0), ZeroVec, Vec(200, 0, 0))

\* a payload whose velocity is not a vector, and nothing else
Garbled == [velocity |-> NotAVector]

UpdatePayloads == { Shooter, InPath, Ram, Crash, Dive, Outside, Garbled }
\* a join may carry no data at all
JoinPayloads == { <<>>, Shooter, Crash, Garbled }

\* ------------------------------------------------------------ client -----
\* buildingCollisions: one building of the generated city, 20 x 50 x 20, standing
\* on the ground (position.y = height / 2)
buildingCollisions ==
  << [position |-> ToFP(Vec(0, 25, 0)), size |-> ToFP(Vec(20, 50, 20))] >>

\* the size of the player's collision box
playerBoxSize == ToFP(Vec(8, 3, 16))

\* worldBounds of checkCollisions
worldBounds == [minX |-> -10000, maxX |-> 10000, minY |-> 5, maxY |-> 2000,
                minZ |-> -10000, maxZ |-> 10000]

\* boxCollision
boxCollision(box1, box2) ==
  /\ 2 * Abs(box1.position.x - box2.position.x) < box1.size.x + box2.size.x
  /\ 2 * Abs(box1.position.y - box2.position.y) < box1.size.y + box2.size.y
  /\ 2 * Abs(box1.position.z - box2.position.z) < box1.size.z + box2.size.z

\* twice playerBottom and twice buildingTop, as checkCollisions computes them
playerBottom2(box) == 2 * box.position.y - box.size.y
buildingTop2(building) == 2 * building.position.y + building.size.y

\* isLandingOnBuilding
isLandingOnBuilding(box, building) ==
  /\ playerBottom2(box) >= buildingTop2(building) - 2 * 3 * FP
  /\ playerBottom2(box) <= buildingTop2(building) + 2 * 3 * FP

\* horizontalOverlapX and horizontalOverlapZ
horizontalOverlap(box, building) ==
  /\ 2 * Abs(box.position.x - building.position.x) < box.size.x + building.size.x
  /\ 2 * Abs(box.position.z - building.position.z) < box.size.z + building.size.z

\* handleVerticalCollision(playerStats, building, true)
handleVerticalCollision(playerStats, building) ==
  [playerStats EXCEPT
     !.position.y = Quot(buildingTop2(building), 2) + Quot(3 * FP, 2),
     !.velocity = Vec(Quot(@.x * 95, 100), IF @.y < 0 THEN 0 ELSE @.y,
                      Quot(@.z * 95, 100))]

\* handleBuildingCollision
handleBuildingCollision(playerStats, building) ==
  LET dx == playerStats.position.x - building.position.x
      dy == playerStats.position.y - building.position.y
      dz == playerStats.position.z - building.position.z
      length == Sqrt(dx * dx + dy * dy + dz * dz)
      n == IF length > 0 THEN normal(dx, dy, dz, length)
           ELSE Vec(dx * NS, dy * NS, dz * NS)
      v == playerStats.velocity
      velocityAlongCollision == Quot(v.x * n.x + v.y * n.y + v.z * n.z, NS)
      bumpDistance == 3 * FP + Quot(Abs(velocityAlongCollision), 10)
      bumped == Vec(playerStats.position.x + Quot(n.x * bumpDistance * 12, 10 * NS),
                    playerStats.position.y + Quot(n.y * bumpDistance * 8, 10 * NS),
                    playerStats.position.z + Quot(n.z * bumpDistance * 12, 10 * NS))
      repulsionStrength == Quot(-velocityAlongCollision * 3, 10)
      bounce(c) == Quot(c * repulsionStrength, NS)
      slide(vc, c) == Quot((vc - Quot(velocityAlongCollision * c, NS)) * 8, 10)
  IN [ position |-> bumped,
       velocity |-> IF velocityAlongCollision < 0
                    THEN Vec(v.x + bounce(n.x), v.y + bounce(n.y), v.z + bounce(n.z))
                    ELSE Vec(slide(v.x, n.x), slide(v.y, n.y), slide(v.z, n.z)) ]

\* the body of checkCollisions' loop for the building at index i;
\* r = [playerStats, collisionDetected, verticalCollision, collidedObject, broke]
checkBuilding(r, playerBox, i) ==
  LET building == buildingCollisions[i]
  IN IF playerBottom2(playerBox) > buildingTop2(building) + 2 * FP THEN r
     ELSE IF ~boxCollision(playerBox, building) THEN r
     ELSE IF isLandingOnBuilding(playerBox, building)
             /\ horizontalOverlap(playerBox, building)
     THEN [ playerStats |-> handleVerticalCollision(r.playerStats, building),
            collisionDetected |-> TRUE, verticalCollision |-> TRUE,
            collidedObject |-> i, broke |-> FALSE ]
     ELSE [ playerStats |-> handleBuildingCollision(r.playerStats, building),
            collisionDetected |-> TRUE, verticalCollision |-> r.verticalCollision,
            collidedObject |-> i, broke |-> ~r.verticalCollision ]

RECURSIVE checkBuildings(_, _, _)
\* for (const building of buildingCollisions), from index i on
checkBuildings(r, playerBox, i) ==
  IF i > Len(buildingCollisions) \/ r.broke THEN r
  ELSE checkBuildings(checkBuilding(r, playerBox, i), playerBox, i + 1)

\* the world-bounds test of checkCollisions
clampToWorld(playerStats) ==
  LET cx == clampAxis(playerStats.position.x, playerStats.velocity.x,
                      worldBounds.minX, worldBounds.maxX)
      cy == clampAxis(playerStats.position.y, playerStats.velocity.y,
                      worldBounds.minY, worldBounds.maxY)
      cz == clampAxis(playerStats.position.z, playerStats.velocity.z,
                      worldBounds.minZ, worldBounds.maxZ)
  IN [ position |-> Vec(cx[1], cy[1], cz[1]), velocity |-> Vec(cx[2], cy[2], cz[2]) ]

\* checkCollisions(playerMesh, scene, velocity): the mesh position it leaves, its
\* local playerStats, and the index of the object it returns (0 for null).  The
\* local playerStats starts from a copy of velocity; the velocity passed in is
\* never written.
checkCollisions(meshPosition, velocity) ==
  LET playerBox == [position |-> meshPosition, size |-> playerBoxSize]
      r == checkBuildings([ playerStats |-> [position |-> meshPosition,
                                             velocity |-> velocity],
                            collisionDetected |-> FALSE, verticalCollision |-> FALSE,
                            collidedObject |-> 0, broke |-> FALSE ], playerBox, 1)
      playerStats == clampToWorld(r.playerStats)
  IN [ position |-> playerStats.position,
       playerStats |-> playerStats,
       object |-> IF r.collisionDetected \/ playerStats # r.playerStats
                  THEN r.collidedObject ELSE 0 ]

\* handleCollision(collisionObject), as far as the player's velocity goes
handleCollision(velocity) ==
  IF velocity.x * velocity.x + velocity.y * velocity.y + velocity.z * velocity.z
       < (FP \div 2) * (FP \div 2)
  THEN velocity
  ELSE Vec(Quot(velocity.x * (-5), 10), velocity.y, Quot(velocity.z * (-5), 10))

\* a mesh position and a velocity
Car(p, v) == [position |-> ToFP(p), velocity |-> ToFP(v)]

\* where updatePlayerPosition can have put the player when checkCollisions runs:
\* above, on and inside the roof of the building, over it or beside it, rising,
\* level or descending
CarInputs ==
  { [ position |-> Vec(x * FP, h * (FP \div 2), 0), velocity |-> ToFP(Vec(vx, vy, 0)) ] :
      x \in {0, 30}, h \in 90..112, vx \in {0, 10}, vy \in {-20, -5, 0, 5} }

\* the client when initializeGameLogic has returned: setupGameLoop has requested
\* the first animation frame, and gameRunning has not been set
loopAtLoad ==
  [ gameRunning |-> FALSE, gameLoop |-> 1, pending |-> {1}, requested |-> 1,
    updates |-> 0 ]
carAtLoad ==
  LET start == Car(Vec(100, 200, 100), ZeroVec)
  IN [ given |-> start, position |-> start.position, velocity |-> start.velocity,
       object |-> 0 ]

\* start()
Start ==
  /\ loop' = [loop EXCEPT !.gameRunning = TRUE]
  /\ UNCHANGED <<car, server>>

\* stop(); gameLoop 0 stands for null
Stop ==
  /\ loop' = [loop EXCEPT !.gameRunning = FALSE,
                          !.pending = IF loop.gameLoop # 0 THEN @ \ {loop.gameLoop} ELSE @,
                          !.gameLoop = 0]
  /\ UNCHANGED <<car, server>>

\* update(deltaTime), as far as car goes: updatePlayerPosition has put the player
\* at given, and checkCollisions runs on it
update_client(given) ==
  LET r == checkCollisions(given.position, given.velocity)
  IN [ given |-> given, position |-> r.position,
       velocity |-> IF r.object # 0 THEN handleCollision(given.velocity)
                    ELSE given.velocity,
       object |-> r.object ]

\* the callback animate of setupGameLoop, run by the browser for the frame f
Animate(f, given) ==
  /\ f \in loop.pending
  /\ loop.requested < MaxFrames
  /\ car' = IF loop.gameRunning THEN update_client(given) ELSE car
  /\ loop' = [loop EXCEPT !.updates = IF loop.gameRunning THEN @ + 1 ELSE @,
                          !.requested = @ + 1,
                          !.gameLoop = loop.requested + 1,
                          !.pending = (@ \ {f}) \cup {loop.requested + 1}]
  /\ UNCHANGED server

\* ------------------------------------------------------- behaviours ------
Init ==
  /\ players = <<>>
  /\ keys = <<>>
  /\ lasers = <<>>
  /\ now = StartTime
  /\ lastUpdateTime = StartTime
  /\ sockets = PlayerIds
  /\ events = <<>>
  /\ hitLog = <<>>
  /\ steps = <<>>
  /\ handled = 0
  /\ timer = 1
  /\ loop = loopAtLoad
  /\ car = carAtLoad
  /\ ret = Ret("listen", NoId, NoId, "none")

\* the timer runs gameLoop one TimeStep after the previous run; Math.random draws
\* a spawn point for each player whose respawn is due
Tick ==
  \E spawn \in [respawnDue(players, now + TimeStep) -> getRandomSpawnPoint] :
    gameLoop(now + TimeStep, spawn)

Next ==
  \/ \E s \in PlayerIds, d \in JoinPayloads, sp \in getRandomSpawnPoint :
        OnPlayerJoin(s, d, sp)
  \/ \E s \in PlayerIds : OnDisconnect(s)
  \/ \E s \in PlayerIds, d \in UpdatePayloads : OnPlayerUpdate(s, d)
  \/ \E s \in PlayerIds : OnLaserFire(s)
  \/ \E s \in PlayerIds, target \in PlayerIds : OnLaserHit(s, target)
  \/ \E s \in PlayerIds : OnChatMessage(s)
  \/ \E s \in PlayerIds : OnPing(s)
  \/ Tick

Spec == Init /\ [][Next]_vars

\* The timer seen through the clock. Only gameLoop reads Date.now(), so within
\* Spec a step changes now exactly when it is a Tick step, and Tick can run
\* exactly when the clock can still advance by TimeStep.
TimerFires ==
  /\ timer > 0
  /\ now + TimeStep <= StartTime + MaxElapsed
  /\ now' = now + TimeStep

\* setTimeout keeps rescheduling gameLoop: a game loop that can run does run
LiveSpec == Spec /\ WF_now(TimerFires)

\* every step of Spec that changes the clock is a Tick step, one TimeStep later
TimerIsTick == [][ (now' # now) => (Tick /\ TimerFires) ]_vars

\* ------------------------------------ player collisions in isolation -----
Axes == { Vec(1, 0, 0), Vec(0, 1, 0), Vec(0, 0, 1) }
Scaled(v, k) == Vec(v.x * k, v.y * k, v.z * k)

\* Two players in the store, p1 joined first: p2 at (0,500,0), p1 gap units
\* from it along the axis, flying at each other with the same speed.
HeadOnPlayers(axis, gap, speed) ==
  LET at1 == Vec(axis.x * gap, 500 + axis.y * gap, axis.z * gap)
      one == addPlayer(<<>>, "p1", Payload(at1, ZeroVec, Scaled(axis, -speed)),
                       ToFP(spawnPoints[1]), StartTime)
  IN addPlayer(one, "p2", Payload(Vec(0, 500, 0), ZeroVec, Scaled(axis, speed)),
               ToFP(spawnPoints[1]), StartTime)

HeadOnInit ==
  /\ \E axis \in Axes, gap \in 1..MaxGap, speed \in 1..MaxSpeed :
       players = HeadOnPlayers(axis, gap, speed)
  /\ keys = << "p1", "p2" >>
  /\ lasers = <<>>
  /\ now = StartTime
  /\ lastUpdateTime = StartTime
  /\ sockets = PlayerIds
  /\ events = <<>>
  /\ hitLog = <<>>
  /\ steps = <<>>
  /\ handled = 0
  /\ timer = 1
  /\ loop = loopAtLoad
  /\ car = carAtLoad
  /\ ret = Ret("listen", NoId, NoId, "none")

\* checkPlayerCollisions(players[id]), as update calls it
HeadOnCollision(id) ==
  /\ ret.op = "listen"
  /\ LET w == checkPlayerCollisions([players |-> players, log |-> <<>>, steps |-> <<>>],
                                    id, keys, 1, now)
     IN /\ players' = w.players
        /\ hitLog' = w.log
        /\ steps' = w.steps
  /\ events' = <<>>
  /\ ret' = Ret("checkPlayerCollisions", id, NoId, "none")
  /\ UNCHANGED <<keys, lasers, now, lastUpdateTime, sockets, handled, timer, loop, car>>

HeadOnNext == \E id \in PlayerIds : HeadOnCollision(id)

HeadOnSpec == HeadOnInit /\ [][HeadOnNext]_vars

\* ------------------------------------------ a laser among three players --
\* p1 has joined as Shooter and fired; p2 and p3 have joined at rest around the
\* place where the laser is one second later: [players, lasers, laser]
LaserPlayers(x2, x3, z3) ==
  LET one == addPlayer(<<>>, "p1", Shooter, ToFP(spawnPoints[1]), StartTime)
      two == addPlayer(one, "p2", Payload(Vec(x2, 500, 0), ZeroVec, ZeroVec),
                       ToFP(spawnPoints[1]), StartTime)
      three == addPlayer(two, "p3", Payload(Vec(x3, 500, z3), ZeroVec, ZeroVec),
                         ToFP(spawnPoints[1]), StartTime)
  IN firePlayerLaser(three, <<>>, "p1", StartTime)

LaserInit ==
  /\ \E x2 \in (500 - MaxSpread)..(500 + MaxSpread),
        x3 \in (500 - MaxSpread)..(500 + MaxSpread), z3 \in 0..MaxSpread :
       /\ players = LaserPlayers(x2, x3, z3).players
       /\ lasers = LaserPlayers(x2, x3, z3).lasers
  /\ keys = << "p1", "p2", "p3" >>
  /\ now = StartTime
  /\ lastUpdateTime = StartTime
  /\ sockets = {"p1", "p2", "p3"}
  /\ events = <<>>
  /\ hitLog = <<>>
  /\ steps = <<>>
  /\ handled = 0
  /\ timer = 1
  /\ loop = loopAtLoad
  /\ car = carAtLoad
  /\ ret = Ret("laser:fire", "p1", NoId, "none")

LaserNext == Tick

LaserSpec == LaserInit /\ [][LaserNext]_vars

\* ------------------------------------------------------ the client -------
ClientInit ==
  /\ players = <<>>
  /\ keys = <<>>
  /\ lasers = <<>>
  /\ now = StartTime
  /\ lastUpdateTime = StartTime
  /\ sockets = PlayerIds
  /\ events = <<>>
  /\ hitLog = <<>>
  /\ steps = <<>>
  /\ handled = 0
  /\ timer = 1
  /\ loop = loopAtLoad
  /\ car = carAtLoad
  /\ ret = Ret("listen", NoId, NoId, "none")

ClientNext ==
  \/ Start
  \/ Stop
  \/ \E f \in 1..MaxFrames, given \in CarInputs : Animate(f, given)

ClientSpec == ClientInit /\ [][ClientNext]_vars

\* ------------------------------------------------------------ claims -----
LogIdx == 1..Len(hitLog)
EventIdx == 1..Len(events)
\* the step that led to the current state is the callback op
After(op) == ret.op = op
\* the playerHit call e found its target in the store and alive
OnAlive(e) == Has(e.before, e.target) /\ e.before[e.target].isAlive

\* C1: when a hit_report sent by a live player B drives another player A's
\* health to 0, B's score after the handler is its score before the handler
\* plus exactly 1, and A's score is unchanged.
C1_KillCreditsAttackerOnce ==
  \A i \in LogIdx :
    LET e == hitLog[i]
    IN ( /\ After("laser:hit") /\ e.via = "report" /\ e.killed
         /\ e.source # e.target
         /\ Has(e.before, e.source) /\ e.before[e.source].isAlive )
       => /\ players[e.source].score = e.before[e.source].score + 1
          /\ players[e.target].score = e.before[e.target].score

\* C2: every player in the store has 0 <= health <= 100, in every reachable state.
C2_HealthInRange ==
  \A id \in DOMAIN players : players[id].health >= 0 /\ players[id].health <= FULL_HEALTH

\* C2 witness: a damage larger than the health that was left has been applied,
\* and the victim's health is 0.
C2_OverkillClamped ==
  \E i \in LogIdx :
    LET e == hitLog[i]
    IN /\ OnAlive(e) /\ e.killed
       /\ e.before[e.target].health - e.damage < 0
       /\ Has(players, e.target) /\ players[e.target].health = 0

\* C3: the creation times of any two projectiles accepted for one player differ
\* by at least the cooldown of 1000 ms.
C3_ShotsRespectCooldown ==
  \A i, j \in 1..Len(lasers) :
    (i < j /\ lasers[i].playerId = lasers[j].playerId)
      => Abs(lasers[j].createdAt - lasers[i].createdAt) >= FIRE_COOLDOWN

\* C4: in a tick's projectile update no damage event of a projectile is applied
\* to the projectile's owner.
C4_OwnerImmune ==
  \A i \in LogIdx : hitLog[i].via = "laser" => hitLog[i].target # hitLog[i].source

\* C4 witness: after a tick a projectile lies within the hit radius of its
\* live owner, and the tick applied no damage to the owner.
C4_OwnLaserAtOwner ==
  /\ After("tick")
  /\ \E i \in 1..Len(lasers) :
       LET l == lasers[i]
       IN /\ Has(players, l.playerId) /\ players[l.playerId].isAlive
          /\ l.createdAt < now
          /\ within(players[l.playerId].position.x - l.position.x,
                    players[l.playerId].position.y - l.position.y,
                    players[l.playerId].position.z - l.position.z, 5 * FP)
          /\ \A k \in LogIdx : hitLog[k].target # l.playerId

\* C5: a damage event applied to a dead player fails and changes nothing: a
\* playerHit call on a dead player returns failure and leaves the store as it
\* was, and a hit_report naming a dead target returns false with the store
\* unchanged and no playerHit call.
C5_DeadTakesNoDamage ==
  [][ /\ \A i \in 1..Len(hitLog') :
           LET e == hitLog'[i]
           IN (Has(e.before, e.target) /\ ~e.before[e.target].isAlive)
                => (~e.success /\ ~e.killed /\ e.after = e.before)
      /\ ( /\ ret'.op = "laser:hit"
           /\ Has(players, ret'.arg) /\ ~players[ret'.arg].isAlive )
         => (ret'.value = "false" /\ players' = players /\ hitLog' = <<>>)
    ]_vars

\* C5 witness: a collision applied a damage event to a player already dead.
C5_CollisionOnDead ==
  \E i \in LogIdx :
    LET e == hitLog[i]
    IN /\ e.via \in {"city", "player"}
       /\ Has(e.before, e.target) /\ ~e.before[e.target].isAlive

\* a shot of socket s was accepted less than the cooldown ago
ShotRecently(s) ==
  \E i \in 1..Len(lasers) :
    lasers[i].playerId = s /\ now - lasers[i].createdAt < FIRE_COOLDOWN
ShotEvents(evs) == {i \in 1..Len(evs) : evs[i].type = "laser:shot"}

\* C6: a fire intent from a player who is dead, is not in the store, or whose
\* last accepted shot was less than 1000 ms ago changes neither the projectile
\* list nor the player's last-fired timestamp and broadcasts no laser_shot.
C6_RefusedFireHasNoEffect ==
  [][ \A s \in PlayerIds :
        ( /\ ret'.op = "laser:fire" /\ ret'.by = s
          /\ (~Has(players, s) \/ ~players[s].isAlive \/ ShotRecently(s)) )
        => /\ lasers' = lasers
           /\ Has(players, s) => players'[s].lastShotTime = players[s].lastShotTime
           /\ ShotEvents(events') = {}
    ]_vars

C8_DeathRaisesEvent ==
  \A i \in LogIdx :
    hitLog[i].killed
      => \E k \in EventIdx :
           /\ events[k].type = "player:died"
           /\ events[k].playerId = hitLog[i].target
           /\ events[k].by = hitLog[i].source

\* C9: from its join to its disconnect a player's score is a non-negative
\* integer that no step decreases.
C9_ScoreNeverDecreases ==
  [][ \A id \in DOMAIN players \cap DOMAIN players' :
        players'[id].score >= players[id].score /\ players'[id].score >= 0
    ]_vars

\* C10: every step leaves a player's health unchanged, decreases it, or is the
\* tick's respawn of a dead player, which sets it to 100.
C10_HealthOnlyDecreases ==
  [][ \A id \in DOMAIN players \cap DOMAIN players' :
        \/ players'[id].health <= players[id].health
        \/ /\ ret'.op = "tick" /\ ~players[id].isAlive
           /\ players'[id].health = FULL_HEALTH
    ]_vars

StepIdx == 1..Len(steps)

\* C11: immediately after the respawn of a dead player that player is alive with
\* health 100, velocity (0,0,0), its position at one of the configured spawn
\* points, and its respawn-at timestamp cleared.
C11_RespawnResetsPlayer ==
  \A i \in StepIdx :
    (steps[i].op = "respawn" /\ ~steps[i].before.isAlive)
      => LET p == steps[i].after
         IN /\ p.isAlive /\ p.health = FULL_HEALTH /\ p.velocity = ZeroVec
            /\ \E k \in 1..Len(spawnPoints) : p.position = ToFP(spawnPoints[k])
            /\ p.respawnTime = 0

\* C12: a player who died at time t (respawnTime = t + 3000) stays dead until a
\* tick that runs at a time >= t + 3000: no intent and no earlier tick makes a
\* dead player alive.
C12_DeadUntilRespawnTick ==
  [][ \A id \in DOMAIN players \cap DOMAIN players' :
        (~players[id].isAlive /\ players'[id].isAlive)
          => (ret'.op = "tick" /\ now' >= players[id].respawnTime)
    ]_vars

\* the times at which the timer can still run gameLoop
TickTimes ==
  { t \in { now + k * TimeStep : k \in 1..(MaxElapsed \div TimeStep) } :
      t <= StartTime + MaxElapsed }
\* the player id is dead and a tick can still run at or after its respawn time
AwaitsRespawn(id) ==
  /\ Has(players, id) /\ ~players[id].isAlive
  /\ \E t \in TickTimes : t >= players[id].respawnTime

\* C13: while the timer keeps running the game loop, every player who is dead
\* and stays in the store is eventually alive again.
C13_DeadEventuallyAlive ==
  \A id \in PlayerIds :
    AwaitsRespawn(id) ~> (~Has(players, id) \/ players[id].isAlive)

\* C13 witness: the tick has just respawned a player that was dead.
C13_Respawned ==
  /\ After("tick")
  /\ \E i \in StepIdx :
       /\ steps[i].op = "respawn" /\ ~steps[i].before.isAlive
       /\ Has(players, steps[i].id) /\ players[steps[i].id].isAlive

\* the position p lies inside the world bounds on all three axes
InBounds(p) ==
  /\ p.x >= CITY_BOUNDS.minX * FP /\ p.x <= CITY_BOUNDS.maxX * FP
  /\ p.y >= CITY_BOUNDS.minY * FP /\ p.y <= CITY_BOUNDS.maxY * FP
  /\ p.z >= CITY_BOUNDS.minZ * FP /\ p.z <= CITY_BOUNDS.maxZ * FP

\* C14: at the end of every tick every player in the store has its position
\* inside the world bounds on all three axes.
C14_InBoundsAfterTick ==
  After("tick") => \A id \in DOMAIN players : InBounds(players[id].position)

\* the coordinate c left the interval [lo, hi] (world units)
Beyond(c, lo, hi) == c < lo * FP \/ c > hi * FP

C16_CollisionSparesDead ==
  \A i \in StepIdx :
    (steps[i].op \in {"city", "player"} /\ ~steps[i].before.isAlive)
      => /\ steps[i].after.position = steps[i].before.position
         /\ steps[i].after.velocity = steps[i].before.velocity

\* the laser ids firePlayerLaser can give: owner and creation time
LaserIds ==
  { <<s, StartTime + k * TimeStep>> : s \in PlayerIds, k \in 0..(MaxElapsed \div TimeStep) }
InFlight(id) == \E i \in 1..Len(lasers) : lasers[i].id = id

\* C17: after a tick that runs later than 2000 ms after a projectile's creation
\* the projectile is not in the store, and while the timer keeps running the
\* game loop every projectile is eventually removed.
C17_LasersExpire ==
  /\ [](After("tick")
          => \A i \in 1..Len(lasers) : now - lasers[i].createdAt <= LASER_TTL)
  /\ \A id \in LaserIds :
       (InFlight(id) /\ \E t \in TickTimes : t - id[2] > LASER_TTL) ~> ~InFlight(id)

\* C17 witness: the tick found a projectile older than its time to live and
\* removed it.
C17_Expired ==
  /\ After("tick")
  /\ \E i \in StepIdx :
       /\ steps[i].op = "expired"
       /\ now - steps[i].before.createdAt > LASER_TTL
       /\ ~InFlight(steps[i].before.id)

\* C18: no two projectiles have the same identifier.
C18_LaserIdsUnique ==
  \A i, j \in 1..Len(lasers) : i # j => lasers[i].id # lasers[j].id

\* C19: a disconnect removes exactly the record of the player who left and
\* broadcasts player_left; every other record and every projectile, those of
\* the player who left included, stay as they were, and the disconnect of a
\* player who is not in the store changes nothing in it.
C19_DisconnectRemovesOnlyLeaver ==
  [][ \A s \in PlayerIds :
        (ret'.op = "disconnect" /\ ret'.by = s)
        => /\ DOMAIN players' = DOMAIN players \ {s}
           /\ \A id \in DOMAIN players' : players'[id] = players[id]
           /\ lasers' = lasers
           /\ events' = << Event("player:left", "others", s, s, 0, NoLaserId) >>
    ]_vars

\* C19 witness: a player with a projectile in flight has just disconnected and
\* another player is in the store.
C19_LeftWithLaserInFlight ==
  /\ After("disconnect")
  /\ ~Has(players, ret.by)
  /\ DOMAIN players # {}
  /\ \E i \in 1..Len(lasers) : lasers[i].playerId = ret.by

\* C20: a hit_report naming a target that is not in the store or is dead is a
\* no-op: the store is unchanged, playerHit is not called, no event is emitted
\* and the handler returns false.
C20_HitOnAbsentOrDeadIsNoOp ==
  [][ ( /\ ret'.op = "laser:hit"
        /\ (~Has(players, ret'.arg) \/ ~players[ret'.arg].isAlive) )
      => /\ players' = players
         /\ hitLog' = <<>>
         /\ events' = <<>>
         /\ ret'.value = "false"
    ]_vars

\* C20 witness: a player in the store has just reported a hit on a player who
\* had disconnected, and the handler returned false.
C20_HitOnDisconnected ==
  /\ After("laser:hit")
  /\ ret.value = "false"
  /\ Has(players, ret.by)
  /\ ret.arg \notin sockets /\ ~Has(players, ret.arg)

\* the events of the given types among evs
OfTypes(evs, types) == {k \in 1..Len(evs) : evs[k].type \in types}

\* C21: an accepted hit_report emits, inside the handler, player_hit to the
\* victim only with the victim's health after the damage and the reporter's id,
\* then laser_impact to all; player_died and score_update follow these two and
\* only when the hit was lethal; no other step, the tick included, emits any of
\* these events.
C21_HitEventsInHandler ==
  [][ /\ (ret'.op = "laser:hit" /\ ret'.value = "true")
         => LET t == ret'.arg
                s == ret'.by
                lethal == ~players'[t].isAlive
            IN /\ players'[t].health
                    = (IF players[t].health > LASER_DAMAGE
                       THEN players[t].health - LASER_DAMAGE ELSE 0)
               /\ Len(events') >= 2
               /\ events'[1] = Event("player:hit", t, t, s, players'[t].health, NoLaserId)
               /\ events'[2] = Event("laser:impact", "all", t, NoId, 0, NoLaserId)
               /\ OfTypes(events', {"player:hit", "laser:impact"}) = {1, 2}
               /\ \A k \in 3..Len(events') :
                    /\ events'[k].type \in {"player:died", "score:update"}
                    /\ events'[k].to = "all"
                    /\ lethal
               /\ lethal => ( /\ OfTypes(events', {"player:died"}) = {3}
                              /\ events'[3].playerId = t /\ events'[3].by = s )
      /\ ~(ret'.op = "laser:hit" /\ ret'.value = "true")
         => OfTypes(events', {"player:hit", "laser:impact", "player:died",
                              "score:update"}) = {}
    ]_vars

\* C21 witness: a hit_report has just killed its target, and the handler emitted
\* player_hit, laser_impact, player_died and score_update, in this order.
C21_LethalHitReported ==
  /\ After("laser:hit") /\ ret.value = "true"
  /\ Len(events) = 4
  /\ events[1].type = "player:hit" /\ events[1].val = 0
  /\ events[2].type = "laser:impact"
  /\ events[3].type = "player:died"
  /\ events[4].type = "score:update"

\* C22: whatever the connections have sent, payloads whose position, rotation
\* or velocity is not a vector included, every run of the game loop completes
\* without throwing and leaves the next run scheduled.
C22_TickNeverThrows ==
  After("tick") => (ret.value = "none" /\ timer = 1)

\* C23: within one tick the respawn check comes after the Physics Integrator,
\* the Collision Engine and the projectile update: no player is integrated or
\* given a collision response, no projectile is expired and no projectile hits
\* a player after a respawn of that tick, so a player respawned in a tick is not
\* integrated, collided or hit by a projectile in that tick.
C23_RespawnIsLastPhase ==
  \A i \in StepIdx :
    steps[i].op = "respawn"
      => /\ \A j \in StepIdx :
              steps[j].op \in {"physics", "city", "player", "expired"} => j < i
         /\ \A k \in LogIdx : hitLog[k].target # steps[i].id

\* C24: at most one run of the game loop is pending at any time; the pending
\* run is replaced only by a run that has updated the store and broadcast its
\* snapshot, and no handler of an inbound intent sets or clears it.
C24_OneTickAtATime ==
  [][ /\ timer <= 1 /\ timer' <= 1
      /\ ret'.op # "tick" => timer' = timer
      /\ (ret'.op = "tick" /\ timer' > 0)
         => /\ ret'.value = "none"
            /\ lastUpdateTime' = now'
            /\ events' = << Event("game:state", "all", NoId, NoId, 0, NoLaserId) >>
    ]_vars

\* C24 witness: a run of the game loop that followed inbound intents has
\* completed, and exactly one next run is pending.
C24_TickRescheduled ==
  /\ After("tick") /\ ret.value = "none"
  /\ handled > 0 /\ now > StartTime + TimeStep
  /\ timer = 1

\* the players a and b are closer than the sum of their collision radii and
\* fly at each other along the line that connects them, with opposite velocities
HeadOn(a, b) ==
  LET dx == a.position.x - b.position.x
      dy == a.position.y - b.position.y
      dz == a.position.z - b.position.z
  IN /\ a.isAlive /\ b.isAlive
     /\ within(dx, dy, dz, 10 * FP)
     /\ a.velocity = Scaled(b.velocity, -1)
     /\ dy * a.velocity.z = dz * a.velocity.y
     /\ dz * a.velocity.x = dx * a.velocity.z
     /\ dx * a.velocity.y = dy * a.velocity.x
     /\ dx * a.velocity.x + dy * a.velocity.y + dz * a.velocity.z < 0

\* the players a and b fly apart along the line that connects them
Separating(a, b) ==
  (a.position.x - b.position.x) * (a.velocity.x - b.velocity.x)
  + (a.position.y - b.position.y) * (a.velocity.y - b.velocity.y)
  + (a.position.z - b.position.z) * (a.velocity.z - b.velocity.z) > 0

\* C25: when two live players closer than 10 units fly head-on at each other
\* with equal and opposite velocities, the collision handling leaves them flying
\* apart along the connecting line and at least 10 units from each other.
C25_HeadOnPlayersSeparate ==
  [][ ( /\ ret'.op = "checkPlayerCollisions"
        /\ HeadOn(players["p1"], players["p2"]) )
      => /\ Separating(players'["p1"], players'["p2"])
         /\ ~checkSphereCollision(players'["p1"].position, 5 * FP,
                                  players'["p2"].position, 5 * FP)
    ]_vars

\* C26: when the player handed to checkCollisions is descending, overlaps the
\* building horizontally and has the bottom of its box within the landing band of
\* the building's top, the check leaves the player at y = buildingTop + 1.5 with
\* the player's vertical velocity 0.
Landing(given) ==
  LET playerBox == [position |-> given.position, size |-> playerBoxSize]
  IN /\ given.velocity.y < 0
     /\ horizontalOverlap(playerBox, buildingCollisions[1])
     /\ isLandingOnBuilding(playerBox, buildingCollisions[1])

C26_LandsOnRoof ==
  (loop.updates > 0 /\ Landing(car.given))
    => /\ 2 * car.position.y = buildingTop2(buildingCollisions[1]) + 3 * FP
       /\ car.velocity.y = 0

\* C27: each projectile causes at most one damage event: in a tick, the lasers of
\* one owner damage players no more often than that owner has lasers in flight
\* when the tick starts (a laser that has hit is removed by the same tick).
LaserDamage(log, owner) ==
  Cardinality({ i \in 1..Len(log) :
                  log[i].via = "laser" /\ log[i].source = owner /\ log[i].success })

LasersOf(ls, owner) == Cardinality({ i \in 1..Len(ls) : ls[i].playerId = owner })

C27_OneDamagePerLaser ==
  [][ ret'.op = "tick" =>
        \A owner \in DOMAIN players :
          LaserDamage(hitLog', owner) <= LasersOf(lasers, owner) ]_vars

\* the step is a hit_report handled for the sender s
Reported(s) == ret'.op = "laser:hit" /\ ret'.by = s

\* no health and no score in the store differs after the step
SameHealthAndScore ==
  /\ DOMAIN players' = DOMAIN players
  /\ \A id \in DOMAIN players :
       /\ players'[id].health = players[id].health
       /\ players'[id].score = players[id].score

\* C28: a hit_report from a sender that is not in the store, or is in it and dead,
\* leaves every player's health and score unchanged.
C28_ReportNeedsLiveSender ==
  [][ \A s \in PlayerIds :
        (Reported(s) /\ ~(Has(players, s) /\ players[s].isAlive))
          => SameHealthAndScore ]_vars

\* C29: a hit_report that names its own sender as the target neither reduces the
\* sender's health nor increases the sender's score.
C29_NoSelfHit ==
  [][ \A s \in PlayerIds :
        (Reported(s) /\ ret'.arg = s /\ Has(players, s) /\ Has(players', s))
          => /\ players'[s].health >= players[s].health
             /\ players'[s].score <= players[s].score ]_vars

\* C30: whenever the game is marked running, an animation frame is requested
\* whose callback will call update; in particular after stop() and then start().
C30_RunningLoopIsScheduled == loop.gameRunning => loop.pending # {}

====
